---- MODULE Spec2Model ----
(***************************************************************************)
(* A model of the pandas-ta indicator functions cmo, pgo, smi, fwma, t3,   *)
(* vidya, dpo and pvi.  Every function is pure: a call validates its       *)
(* arguments, computes a raw series, shifts it by the offset, fills the    *)
(* remaining nulls and labels the result.  A state of the model is one     *)
(* call: the input series, the arguments, the locals after validation, the *)
(* raw series, and the returned value.                                     *)
(*                                                                         *)
(* Numbers are exact rationals <<p, q>> in lowest terms with q > 0.  The   *)
(* float specials are <<0, 0>> (NaN, the null of a numeric series) and     *)
(* <<1, 0>>, <<-1, 0>> (the infinities a division by zero produces).       *)
(* Rounding of binary floating point is not modelled.                      *)
(* Positions of a series are counted from 0 as in the source: At(s, i).    *)
(***************************************************************************)
EXTENDS Integers, Sequences, FiniteSets, TLC

VARIABLES close, pc, fn, args, norm, scan, raw, ret

vars == <<close, pc, fn, args, norm, scan, raw, ret>>

----------------------------------------------------------------------------
(* Bounds of the model.                                                    *)

MaxLen == 3
MaxVal == 1
MaxWin == 2
MaxOff == 1
MaxLenV == 5
MaxValV == 2
MaxLenT == 7
MaxLenP == 4
MaxValP == 1

----------------------------------------------------------------------------
(* Exact arithmetic with the float specials.                               *)

Abs(x) == IF x < 0 THEN -x ELSE x

Sgn(x) == IF x < 0 THEN -1 ELSE IF x > 0 THEN 1 ELSE 0

RECURSIVE GCD(_, _)
GCD(x, y) == IF y = 0 THEN x ELSE GCD(y, x % y)

NaN == <<0, 0>>

Inf(s) == <<s, 0>>

IsNull(x) == x = NaN

IsFinite(x) == x[2] # 0

Norm(p, q) ==
    IF q = 0 THEN <<Sgn(p), 0>>
    ELSE LET g == GCD(Abs(p), Abs(q))
         IN  <<Sgn(q) * (p \div g), Abs(q) \div g>>

R(k) == <<k, 1>>

Neg(x) == <<-x[1], x[2]>>

Add(x, y) ==
    IF IsNull(x) \/ IsNull(y) THEN NaN
    ELSE IF ~IsFinite(x) /\ ~IsFinite(y) THEN (IF x = y THEN x ELSE NaN)
    ELSE IF ~IsFinite(x) THEN x
    ELSE IF ~IsFinite(y) THEN y
    ELSE LET g == GCD(x[2], y[2])
         IN  Norm(x[1] * (y[2] \div g) + y[1] * (x[2] \div g),
                  (x[2] \div g) * y[2])

Sub(x, y) == Add(x, Neg(y))

Mul(x, y) ==
    IF IsNull(x) \/ IsNull(y) THEN NaN
    ELSE IF ~IsFinite(x) \/ ~IsFinite(y)
         THEN (IF x[1] = 0 \/ y[1] = 0 THEN NaN ELSE Inf(Sgn(x[1]) * Sgn(y[1])))
    ELSE LET g1 == GCD(Abs(x[1]), y[2])
             g2 == GCD(Abs(y[1]), x[2])
         IN  Norm((x[1] \div g1) * (y[1] \div g2),
                  (x[2] \div g2) * (y[2] \div g1))

Div(x, y) ==
    IF IsNull(x) \/ IsNull(y) THEN NaN
    ELSE IF ~IsFinite(y) THEN (IF IsFinite(x) THEN R(0) ELSE NaN)
    ELSE IF y[1] = 0
         THEN (IF x[1] = 0 THEN NaN ELSE Inf(Sgn(x[1])))
    ELSE IF ~IsFinite(x) THEN Inf(Sgn(x[1]) * Sgn(y[1]))
    ELSE Mul(x, Norm(y[2], y[1]))

AbsR(x) == <<Abs(x[1]), x[2]>>

\* x > y on numbers; any comparison with NaN is false.
Gt(x, y) ==
    LET d == Sub(x, y)
    IN  IF IsNull(x) \/ IsNull(y) THEN FALSE
        ELSE IF x = y THEN FALSE
        ELSE d[1] > 0

----------------------------------------------------------------------------
(* Series: sequences of numbers, positions counted from 0.                 *)

At(s, i) == s[i + 1]

\* A series given position by position, as a sequence of m values.
Mat(f, m) == SubSeq(f, 1, m)

Pos(s) == 0 .. (Len(s) - 1)

Const(m, x) == Mat([j \in 1 .. m |-> x], m)

FromInts(s) == Mat([j \in 1 .. Len(s) |-> R(s[j])], Len(s))

AddS(s, t) == Mat([j \in 1 .. Len(s) |-> Add(s[j], t[j])], Len(s))

\* A faulty difference of two series: the operands are exchanged.
SubSReversed(s, t) == Mat([j \in 1 .. Len(s) |-> Sub(t[j], s[j])], Len(s))

SubS(s, t) == Mat([j \in 1 .. Len(s) |-> Sub(s[j], t[j])], Len(s))

DivS(s, t) == Mat([j \in 1 .. Len(s) |-> Div(s[j], t[j])], Len(s))

Scale(c, s) == Mat([j \in 1 .. Len(s) |-> Mul(c, s[j])], Len(s))

AbsS(s) == Mat([j \in 1 .. Len(s) |-> AbsR(s[j])], Len(s))

AllNull(s) == \A j \in 1 .. Len(s) : IsNull(s[j])

NoNull(s) == \A j \in 1 .. Len(s) : ~IsNull(s[j])

----------------------------------------------------------------------------
(* The pandas operations the indicators call.                              *)

\* Series.shift(k): position i takes the value of position i - k; the
\* vacated positions are null and the length is unchanged.
Shift(s, k) ==
    Mat([j \in 1 .. Len(s) |->
            IF j - k >= 1 /\ j - k <= Len(s) THEN s[j - k] ELSE NaN], Len(s))

\* A faulty difference: the lag is always one position.
DiffLagOne(s, d) == SubS(s, Shift(s, 1))

\* Series.diff(d)
Diff(s, d) == SubS(s, Shift(s, d))

ClipLower0(s) ==
    Mat([j \in 1 .. Len(s) |-> IF IsNull(s[j]) THEN NaN
                           ELSE IF Gt(R(0), s[j]) THEN R(0) ELSE s[j]], Len(s))

ClipUpper0(s) ==
    Mat([j \in 1 .. Len(s) |-> IF IsNull(s[j]) THEN NaN
                           ELSE IF Gt(s[j], R(0)) THEN R(0) ELSE s[j]], Len(s))

RECURSIVE SumRange(_, _, _)
SumRange(s, lo, hi) ==
    IF lo > hi THEN R(0) ELSE Add(SumRange(s, lo, hi - 1), At(s, hi))

\* Series.rolling(n).sum(): null until n observations are in the window, and
\* null while the window holds a null.
RollingSum(s, n) ==
    Mat([j \in 1 .. Len(s) |->
        IF j < n \/ (\E k \in (j - n + 1) .. j : IsNull(s[k])) THEN NaN
        ELSE SumRange(s, j - n, j - 1)], Len(s))

\* Series.fillna(value)
Fillna(s, c) == Mat([j \in 1 .. Len(s) |-> IF IsNull(s[j]) THEN c ELSE s[j]], Len(s))

RECURSIVE Ffill(_)
Ffill(s) ==
    IF Len(s) <= 1 THEN s
    ELSE LET h == Ffill(SubSeq(s, 1, Len(s) - 1))
             x == s[Len(s)]
         IN  Append(h, IF IsNull(x) THEN h[Len(h)] ELSE x)

RECURSIVE Bfill(_)
Bfill(s) ==
    IF Len(s) <= 1 THEN s
    ELSE LET t == Bfill(Tail(s))
         IN  <<IF IsNull(s[1]) THEN t[1] ELSE s[1]>> \o t

\* Series.fillna(method=...)
FillMethod(s, method) ==
    IF method \in {"ffill", "pad"} THEN Ffill(s)
    ELSE IF method \in {"bfill", "backfill"} THEN Bfill(s)
    ELSE s

\* Series.replace({0: nan})
ReplaceZero(s) == Mat([j \in 1 .. Len(s) |-> IF s[j] = R(0) THEN NaN ELSE s[j]], Len(s))

----------------------------------------------------------------------------
(* Arguments.  An optional argument is [some, val]; kwargs is the sequence *)
(* of the keyword options in the order the caller wrote them.              *)

None == [some |-> FALSE, val |-> 0]

NoneB == [some |-> FALSE, val |-> FALSE]

Some(v) == [some |-> TRUE, val |-> v]

NoneR == [some |-> FALSE, val |-> R(0)]

NoSeries == [present |-> FALSE, v |-> <<>>]

Ser(s) == [present |-> TRUE, v |-> s]

KwNum(k, x) == [key |-> k, num |-> x, str |-> "", flag |-> FALSE]

KwStr(k, x) == [key |-> k, num |-> NaN, str |-> x, flag |-> FALSE]

KwFlag(k, x) == [key |-> k, num |-> NaN, str |-> "", flag |-> x]

Has(kw, k) == \E j \in 1 .. Len(kw) : kw[j].key = k

Get(kw, k) == kw[CHOOSE j \in 1 .. Len(kw) : kw[j].key = k]

\* utils.verify_series: the series, or None when it is absent or shorter
\* than the minimum length.
verify_series(s, min_length) ==
    IF s.present /\ Len(s.v) >= min_length THEN s ELSE NoSeries

\* utils.get_offset
get_offset(x) == IF x.some THEN x.val ELSE 0

\* utils.get_drift
get_drift(x) == IF x.some /\ x.val # 0 THEN x.val ELSE 1

\* length = int(length) if length and length > 0 else <default>
NormInt(x, dflt) == IF x.some /\ x.val > 0 THEN x.val ELSE dflt

\* scalar = float(scalar) if scalar else <default>
NormScalar(x, dflt) == IF x.some /\ x.val # 0 THEN R(x.val) ELSE R(dflt)

\* mode_tal = bool(talib) if isinstance(talib, bool) else True
ModeTal(x) == IF x.some THEN x.val ELSE TRUE

\* A faulty "# Offset" block: the shift goes the other way.
ApplyOffsetReversed(s, offset) == IF offset # 0 THEN Shift(s, -offset) ELSE s

\* The "# Offset" block of every indicator.
ApplyOffset(s, offset) == IF offset # 0 THEN Shift(s, offset) ELSE s

\* A faulty "# Fill" block: only the option written last is applied.
ApplyFillLastWins(s, kw) ==
    IF Has(kw, "fillna") /\ Has(kw, "fill_method")
    THEN (IF kw[Len(kw)].key = "fill_method"
          THEN FillMethod(s, Get(kw, "fill_method").str)
          ELSE Fillna(s, Get(kw, "fillna").num))
    ELSE IF Has(kw, "fillna") THEN Fillna(s, Get(kw, "fillna").num)
    ELSE IF Has(kw, "fill_method") THEN FillMethod(s, Get(kw, "fill_method").str)
    ELSE s

\* The "# Fill" block of every indicator: fillna first, fill_method second.
ApplyFill(s, kw) ==
    LET s1 == IF Has(kw, "fillna") THEN Fillna(s, Get(kw, "fillna").num) ELSE s
    IN  IF Has(kw, "fill_method")
        THEN FillMethod(s1, Get(kw, "fill_method").str)
        ELSE s1

Label(prefix, params) == [prefix |-> prefix, params |-> params]

NoRet == [none |-> TRUE, cols |-> <<>>, names |-> <<>>, category |-> ""]

Returned(cols, names, cat) ==
    [none |-> FALSE, cols |-> cols, names |-> names, category |-> cat]

NoArgs ==
    [high |-> NoSeries, low |-> NoSeries, volume |-> NoSeries,
     length |-> None, fast |-> None, slow |-> None, signal |-> None,
     scalar |-> None, drift |-> None, offset |-> None, a |-> NoneR,
     centered |-> TRUE, talib |-> NoneB, initial |-> None, kwargs |-> <<>>,
     has_talib |-> FALSE, ext |-> <<>>]

NoNorm ==
    [length |-> 0, fast |-> 0, slow |-> 0, signal |-> 0, scalar |-> R(0),
     drift |-> 0, offset |-> 0, a |-> R(0), centered |-> FALSE,
     mode_tal |-> FALSE, initial |-> 0]

----------------------------------------------------------------------------
(* Helpers of the package that the indicators import.                      *)

\* overlap.sma: the rolling mean over n positions.
sma(s, n) == Scale(Norm(1, n), RollingSum(s, n))

\* The first position (counted from 1) holding a value; Len(s) + 1 if none.
FirstValid(s) ==
    IF AllNull(s) THEN Len(s) + 1
    ELSE CHOOSE j \in 1 .. Len(s) :
            ~IsNull(s[j]) /\ \A k \in 1 .. (j - 1) : IsNull(s[k])

\* Exponential smoothing y[j] = alpha*x[j] + (1 - alpha)*y[j-1] from the seed
\* at position `at`; null before it.
RECURSIVE Smooth(_, _, _, _, _)
Smooth(s, alpha, at, seed, k) ==
    IF k < at THEN Const(k, NaN)
    ELSE IF k = at THEN Append(Const(k - 1, NaN), seed)
    ELSE LET y == Smooth(s, alpha, at, seed, k - 1)
         IN  Append(y, Add(Mul(alpha, s[k]), Mul(Sub(R(1), alpha), y[k - 1])))

\* overlap.ema before its fill: smoothing factor 2/(n+1), seeded by the mean of
\* the first n observations (presma) or by the first observation.
EmaRaw(s, n, presma) ==
    LET f == FirstValid(s)
        alpha == Norm(2, n + 1)
    IN  IF presma
        THEN (IF f + n - 1 > Len(s) THEN Const(Len(s), NaN)
              ELSE Smooth(s, alpha, f + n - 1,
                          Mul(Norm(1, n), SumRange(s, f - 1, f + n - 2)), Len(s)))
        ELSE (IF f > Len(s) THEN s
              ELSE Smooth(s, alpha, f, s[f], Len(s)))

Presma(kw) == IF Has(kw, "presma") THEN Get(kw, "presma").flag ELSE TRUE

\* momentum.roc: 100 * (close - close.shift(n)) / close.shift(n)
roc(s, n) ==
    Scale(R(100), DivS(Diff(s, n), Shift(s, n)))

\* utils.fibonacci(n, weighted=True): 1, 1, 2, 3, ... divided by their sum.
RECURSIVE Fib(_)
Fib(k) == IF k <= 2 THEN 1 ELSE Fib(k - 1) + Fib(k - 2)

RECURSIVE FibSum(_)
FibSum(n) == IF n = 0 THEN 0 ELSE FibSum(n - 1) + Fib(n)

fibonacci(n) == Mat([k \in 1 .. n |-> Norm(Fib(k), FibSum(n))], n)

\* utils.weights(w): the dot product of w with the window ending at position j.
RECURSIVE Dot(_, _, _, _)
Dot(w, s, j, k) ==
    IF k = 0 THEN R(0)
    ELSE Add(Dot(w, s, j, k - 1), Mul(w[k], s[j - Len(w) + k]))

\* The outputs the external collaborators may hand back: m positions, the
\* first `lead` of them null, the rest a ramp from `from`.
Lead(m, lead, from) ==
    Mat([j \in 1 .. m |-> IF j <= lead THEN NaN ELSE R(from + j)], m)

Cap(k, m) == IF k > m THEN m ELSE k

Max(x, y) == IF x > y THEN x ELSE y

\* A second input of the call: a series as long as close, none at all, or a
\* series one position short of the minimum length n.
Rising(m) == Mat([j \in 1 .. m |-> R(j)], m)

Falling(m) == Mat([j \in 1 .. m |-> R(m + 1 - j)], m)

Short(n) == Ser(Rising(Cap(n - 1, MaxLen)))

Volumes(n) ==
    IF close.present
    THEN {Ser(Rising(Len(close.v))), Ser(Falling(Len(close.v))), NoSeries, Short(n)}
    ELSE {Short(n), NoSeries}

HighLows(n) ==
    LET same == IF close.present THEN close ELSE Short(n)
    IN  {<<same, same>>, <<NoSeries, same>>, <<same, NoSeries>>, <<Short(n), same>>}

----------------------------------------------------------------------------
(* The "# Offset", "# Fill" and "# Name and Category" blocks shared by the *)
(* single-series indicators.                                               *)

\* Faulty blocks: the fill runs before the offset.
FinishFillFirst(rw, off, kw, label, cat) ==
    Returned(<<ApplyOffset(ApplyFill(rw, kw), off)>>, <<label>>, cat)

Finish(rw, off, kw, label, cat) ==
    Returned(<<ApplyFill(ApplyOffset(rw, off), kw)>>, <<label>>, cat)

----------------------------------------------------------------------------
(* overlap/vidya.py                                                        *)

VidyaDefaultLength == 14

\* _cmo(source, n, d)
_cmo(source, n, d) ==
    LET mom == Diff(source, d)
        positive == ClipLower0(mom)
        negative == AbsS(ClipUpper0(mom))
        pos_sum == RollingSum(positive, n)
        neg_sum == RollingSum(negative, n)
    IN  DivS(SubS(pos_sum, neg_sum), AddS(pos_sum, neg_sum))

VidyaAlpha(length) == Norm(2, length + 1)

\* A faulty loop body: the carry decays by alpha alone.
VidyaStepNoDecay(alpha, c, x, prev) ==
    Add(Mul(Mul(alpha, c), x), Mul(prev, Sub(R(1), alpha)))

\* A faulty loop body: an undefined oscillator leaves the carry as it was.
VidyaStepSkipNull(alpha, c, x, prev) ==
    IF IsNull(c) THEN prev
    ELSE Add(Mul(Mul(alpha, c), x), Mul(prev, Sub(R(1), Mul(alpha, c))))

\* One pass of the loop body: the value written to position i.
VidyaStep(alpha, c, x, prev) ==
    Add(Mul(Mul(alpha, c), x), Mul(prev, Sub(R(1), Mul(alpha, c))))

\* The series after the first k positions of the scan: zeros up to position
\* length - 1, then one pass of the loop `for i in range(length, m)` each.
RECURSIVE VidyaScanTo(_, _, _, _, _)
VidyaScanTo(cl, abs_cmo, alpha, length, k) ==
    IF k <= length THEN Const(k, R(0))
    ELSE LET out == VidyaScanTo(cl, abs_cmo, alpha, length, k - 1)
         IN  Append(out, VidyaStep(alpha, abs_cmo[k], cl[k], out[k - 1]))

VidyaScan(cl, length, drift) ==
    VidyaScanTo(cl, AbsS(_cmo(cl, length, drift)), VidyaAlpha(length),
                length, Len(cl))

\* A faulty end of the scan: the zeros are kept.
VidyaNoReplace(s) == s

VidyaReplace(s) == ReplaceZero(s)

CallVidya(Ls, Ds, Os, Ks) ==
    /\ pc = "start"
    /\ \E length \in Ls, drift \in Ds :
        LET n == NormInt(length, VidyaDefaultLength)
            cl == verify_series(close, n)
            d == get_drift(drift)
        IN  \E sc \in {IF cl.present THEN VidyaScan(cl.v, n, d) ELSE <<>>} :
            \E rw \in {VidyaReplace(sc)}, offset \in Os, kw \in Ks :
            LET off == get_offset(offset)
            IN  /\ fn' = "vidya"
                /\ args' = [NoArgs EXCEPT !.length = length, !.drift = drift,
                                          !.offset = offset, !.kwargs = kw]
                /\ norm' = [NoNorm EXCEPT !.length = n, !.drift = d, !.offset = off]
                /\ IF ~cl.present
                   THEN /\ scan' = <<>>
                        /\ raw' = <<>>
                        /\ ret' = NoRet
                   ELSE /\ scan' = sc
                        /\ raw' = <<rw>>
                        /\ ret' = Finish(rw, off, kw, Label("VIDYA", <<R(n)>>), "overlap")
    /\ pc' = "done"
    /\ UNCHANGED close

----------------------------------------------------------------------------
(* overlap/fwma.py                                                         *)

FwmaDefaultLength == 10

FwmaRaw(cl, length) ==
    LET fibs == fibonacci(length)
    IN  Mat([j \in 1 .. Len(cl) |->
                IF j < length \/ (\E k \in (j - length + 1) .. j : IsNull(cl[k]))
                THEN NaN ELSE Dot(fibs, cl, j, length)], Len(cl))

CallFwma(Ls, Os, Ks) ==
    /\ pc = "start"
    /\ \E length \in Ls :
        LET n == NormInt(length, FwmaDefaultLength)
            cl == verify_series(close, n)
        IN  \E rw \in {IF cl.present THEN FwmaRaw(cl.v, n) ELSE <<>>},
               offset \in Os, kw \in Ks :
            LET off == get_offset(offset)
            IN  /\ fn' = "fwma"
                /\ args' = [NoArgs EXCEPT !.length = length, !.offset = offset,
                                          !.kwargs = kw]
                /\ norm' = [NoNorm EXCEPT !.length = n, !.offset = off]
                /\ scan' = <<>>
                /\ IF ~cl.present
                   THEN raw' = <<>> /\ ret' = NoRet
                   ELSE /\ raw' = <<rw>>
                        /\ ret' = Finish(rw, off, kw, Label("FWMA", <<R(n)>>), "overlap")
    /\ pc' = "done"
    /\ UNCHANGED close

----------------------------------------------------------------------------
(* trend/dpo.py                                                            *)

DpoDefaultLength == 20

DpoShift(length) == (length \div 2) + 1

DpoRaw(cl, length, centered) ==
    LET t == DpoShift(length)
        ma == sma(cl, length)
    IN  IF centered
        THEN Shift(SubS(Shift(cl, t), ma), -t)
        ELSE SubS(cl, Shift(ma, t))

\* if not kwargs.get("lookahead", True): centered = False
DpoCentered(centered, kw) ==
    IF Has(kw, "lookahead") /\ ~Get(kw, "lookahead").flag THEN FALSE ELSE centered

CallDpo(Ls, Os, Ks) ==
    /\ pc = "start"
    /\ \E length \in Ls, centered \in BOOLEAN, kw \in Ks :
        LET n == NormInt(length, DpoDefaultLength)
            cl == verify_series(close, n)
            cen == DpoCentered(centered, kw)
        IN  \E rw \in {IF cl.present THEN DpoRaw(cl.v, n, cen) ELSE <<>>},
               offset \in Os :
            LET off == get_offset(offset)
            IN  /\ fn' = "dpo"
                /\ args' = [NoArgs EXCEPT !.length = length, !.offset = offset,
                                          !.centered = centered, !.kwargs = kw]
                /\ norm' = [NoNorm EXCEPT !.length = n, !.offset = off,
                                          !.centered = cen]
                /\ scan' = <<>>
                /\ IF ~cl.present
                   THEN raw' = <<>> /\ ret' = NoRet
                   ELSE /\ raw' = <<rw>>
                        /\ ret' = Finish(rw, off, kw, Label("DPO", <<R(n)>>), "trend")
    /\ pc' = "done"
    /\ UNCHANGED close

----------------------------------------------------------------------------
(* volume/pvi.py                                                           *)

PviDefaultLength == 1

PviDefaultInitial == 1000

RECURSIVE Cumsum(_)
Cumsum(s) ==
    IF Len(s) <= 1 THEN s
    ELSE LET c == Cumsum(SubSeq(s, 1, Len(s) - 1))
         IN  Append(c, Add(c[Len(c)], s[Len(s)]))

\* A faulty product: the rate of change whatever the volume did.
PviProductAnyVolume(cl, vol, length) == roc(cl, length)

\* _roc * signed_volume[signed_volume > 0].abs(): the rate of change where the
\* volume rose, null elsewhere.  Position 0 is overwritten by the caller.
PviProduct(cl, vol, length) ==
    LET dv == Diff(vol, 1)
        r == roc(cl, length)
    IN  Mat([j \in 1 .. Len(cl) |->
                IF Gt(dv[j], R(0)) THEN Mul(r[j], R(1)) ELSE NaN], Len(cl))

PviRaw(cl, vol, length, initial) ==
    LET filled == Fillna(PviProduct(cl, vol, length), R(0))
    IN  Cumsum([filled EXCEPT ![1] = R(initial)])

\* if close is None or volume is None: return
PviValid(cl, vol) == cl.present /\ vol.present

CallPvi(Ls, Is, Os, Ks) ==
    /\ pc = "start"
    /\ \E length \in Ls, initial \in Is :
      \E volume \in Volumes(NormInt(length, PviDefaultLength)) :
        LET n == NormInt(length, PviDefaultLength)
            ini == NormInt(initial, PviDefaultInitial)
            cl == verify_series(close, n)
            vol == verify_series(volume, n)
        IN  \E rw \in {IF PviValid(cl, vol)
                       THEN PviRaw(cl.v, vol.v, n, ini) ELSE <<>>},
               offset \in Os, kw \in Ks :
            LET off == get_offset(offset)
            IN  /\ fn' = "pvi"
                /\ args' = [NoArgs EXCEPT !.length = length, !.offset = offset,
                                          !.initial = initial, !.volume = volume,
                                          !.kwargs = kw]
                /\ norm' = [NoNorm EXCEPT !.length = n, !.offset = off,
                                          !.initial = ini]
                /\ scan' = <<>>
                /\ IF ~PviValid(cl, vol)
                   THEN raw' = <<>> /\ ret' = NoRet
                   ELSE /\ raw' = <<rw>>
                        /\ ret' = Finish(rw, off, kw, Label("PVI", <<R(n)>>), "volume")
    /\ pc' = "done"
    /\ UNCHANGED close

----------------------------------------------------------------------------
(* momentum/cmo.py                                                         *)

CmoDefaultLength == 14

CmoDefaultScalar == 100

\* overlap.rma: smoothing factor 1/n, seeded by the first observation, emitted
\* once n observations are in.
rma(s, n) ==
    LET f == FirstValid(s)
        y == Smooth(s, Norm(1, n), f, s[f], Len(s))
    IN  IF f > Len(s) THEN s
        ELSE Mat([j \in 1 .. Len(s) |-> IF j < f + n - 1 THEN NaN ELSE y[j]], Len(s))

CmoBundled(cl, length, scalar, drift, mode_tal) ==
    LET mom == Diff(cl, drift)
        positive == ClipLower0(mom)
        negative == AbsS(ClipUpper0(mom))
        pos_ == IF mode_tal THEN rma(positive, length)
                ELSE RollingSum(positive, length)
        neg_ == IF mode_tal THEN rma(negative, length)
                ELSE RollingSum(negative, length)
    IN  DivS(Scale(scalar, SubS(pos_, neg_)), AddS(pos_, neg_))

\* talib.CMO(close, length): the library's oscillator, scaled by 100 on
\* differences of lag 1.
TalibCMO(cl, length) == CmoBundled(cl, length, R(100), 1, TRUE)

CmoRaw(cl, length, scalar, drift, mode_tal, has_talib) ==
    IF has_talib /\ mode_tal THEN TalibCMO(cl, length)
    ELSE CmoBundled(cl, length, scalar, drift, mode_tal)

CallCmo(Ls, Ss, Ds, Ts, Os, Ks) ==
    /\ pc = "start"
    /\ \E length \in Ls, scalar \in Ss, drift \in Ds, tal \in Ts :
        LET n == NormInt(length, CmoDefaultLength)
            sc == NormScalar(scalar, CmoDefaultScalar)
            cl == verify_series(close, n)
            d == get_drift(drift)
            mode_tal == ModeTal(tal[1])
        IN  \E rw \in {IF cl.present
                       THEN CmoRaw(cl.v, n, sc, d, mode_tal, tal[2]) ELSE <<>>},
               offset \in Os, kw \in Ks :
            LET off == get_offset(offset)
            IN  /\ fn' = "cmo"
                /\ args' = [NoArgs EXCEPT !.length = length, !.scalar = scalar,
                                          !.drift = drift, !.talib = tal[1],
                                          !.has_talib = tal[2],
                                          !.offset = offset, !.kwargs = kw]
                /\ norm' = [NoNorm EXCEPT !.length = n, !.scalar = sc, !.drift = d,
                                          !.offset = off, !.mode_tal = mode_tal]
                /\ scan' = <<>>
                /\ IF ~cl.present
                   THEN raw' = <<>> /\ ret' = NoRet
                   ELSE /\ raw' = <<rw>>
                        /\ ret' = Finish(rw, off, kw, Label("CMO", <<R(n)>>), "momentum")
    /\ pc' = "done"
    /\ UNCHANGED close

----------------------------------------------------------------------------
(* momentum/pgo.py                                                         *)

PgoDefaultLength == 14

\* ema(atr(high, low, close, length), length), as handed back: m positions,
\* null before the lookback or throughout, else a constant.
AtrEma(m, length) ==
    {Mat([j \in 1 .. m |-> IF j <= k THEN NaN ELSE R(v)], m) :
        k \in {Cap(length - 1, m), m}, v \in {0, 2}}

PgoRaw(cl, length, atr_ema) ==
    DivS(SubS(cl, sma(cl, length)), atr_ema)

\* A faulty check: only close is looked at.
PgoValidCloseOnly(high, low, cl) == cl.present

\* if high is None or low is None or close is None: return
PgoValid(high, low, cl) == high.present /\ low.present /\ cl.present

CallPgo(Ls, Os, Ks) ==
    /\ pc = "start"
    /\ \E length \in Ls :
      \E hl \in HighLows(NormInt(length, PgoDefaultLength)) :
        LET n == NormInt(length, PgoDefaultLength)
            high == verify_series(hl[1], n)
            low == verify_series(hl[2], n)
            cl == verify_series(close, n)
            valid == PgoValid(high, low, cl)
        IN  \E atr_ema \in (IF valid THEN AtrEma(Len(cl.v), n) ELSE {<<>>}) :
          \E offset \in Os, kw \in Ks :
          \E rw \in {IF valid THEN PgoRaw(cl.v, n, atr_ema) ELSE <<>>} :
            LET off == get_offset(offset)
            IN  /\ fn' = "pgo"
                /\ args' = [NoArgs EXCEPT !.length = length, !.high = hl[1],
                                          !.low = hl[2], !.offset = offset,
                                          !.kwargs = kw,
                                          !.ext = IF valid THEN <<atr_ema>> ELSE <<>>]
                /\ norm' = [NoNorm EXCEPT !.length = n, !.offset = off]
                /\ scan' = <<>>
                /\ IF ~valid
                   THEN raw' = <<>> /\ ret' = NoRet
                   ELSE /\ raw' = <<rw>>
                        /\ ret' = Finish(rw, off, kw, Label("PGO", <<R(n)>>), "momentum")
    /\ pc' = "done"
    /\ UNCHANGED close

----------------------------------------------------------------------------
(* momentum/smi.py                                                         *)

SmiDefaultFast == 5

SmiDefaultSlow == 20

SmiDefaultSignal == 5

SmiDefaultScalar == 1

\* tsi(close, fast, slow, signal, scalar), as handed back: the tsi column and
\* its signal column, m positions each, the signal with at least as many
\* leading nulls as the tsi.
Tsi(m, slow, signal) ==
    {<<Lead(m, k, 0), Lead(m, Cap(k + e, m), 3)>> :
        k \in {Cap(slow - 1, m), m}, e \in {0, signal - 1}}

CallSmi(Fs, Sls, Sgs, Ss, Os, Ks) ==
    /\ pc = "start"
    /\ \E fast \in Fs, slow \in Sls, signal \in Sgs, scalar \in Ss :
        LET f0 == NormInt(fast, SmiDefaultFast)
            s0 == NormInt(slow, SmiDefaultSlow)
            sg == NormInt(signal, SmiDefaultSignal)
            f == IF s0 < f0 THEN s0 ELSE f0
            sl == IF s0 < f0 THEN f0 ELSE s0
            sc == NormScalar(scalar, SmiDefaultScalar)
            cl == verify_series(close, Max(Max(f, sl), sg))
        IN  \E tsi_df \in (IF cl.present THEN Tsi(Len(cl.v), sl, sg) ELSE {<<>>}),
               offset \in Os, kw \in Ks :
            LET off == get_offset(offset)
                smi == tsi_df[1]
                signalma == tsi_df[2]
                osc == SubS(smi, signalma)
                props == <<R(f), R(sl), R(sg)>> \o (IF sc # R(1) THEN <<sc>> ELSE <<>>)
            IN  /\ fn' = "smi"
                /\ args' = [NoArgs EXCEPT !.fast = fast, !.slow = slow,
                                          !.signal = signal, !.scalar = scalar,
                                          !.offset = offset, !.kwargs = kw,
                                          !.ext = IF cl.present THEN tsi_df ELSE <<>>]
                /\ norm' = [NoNorm EXCEPT !.fast = f, !.slow = sl, !.signal = sg,
                                          !.length = Max(Max(f, sl), sg),
                                          !.scalar = sc, !.offset = off]
                /\ scan' = <<>>
                /\ IF ~cl.present
                   THEN raw' = <<>> /\ ret' = NoRet
                   ELSE /\ raw' = <<smi, signalma, osc>>
                        /\ ret' = Returned(
                              <<ApplyFill(ApplyOffset(smi, off), kw),
                                ApplyFill(ApplyOffset(signalma, off), kw),
                                ApplyFill(ApplyOffset(osc, off), kw)>>,
                              <<Label("SMI", props), Label("SMIs", props),
                                Label("SMIo", props)>>,
                              "momentum")
    /\ pc' = "done"
    /\ UNCHANGED close

----------------------------------------------------------------------------
(* overlap/t3.py                                                           *)

T3DefaultLength == 10

T3DefaultA == Norm(7, 10)

\* a = float(a) if a and a > 0 and a < 1 else 0.7
NormA(x) ==
    IF x.some /\ Gt(x.val, R(0)) /\ Gt(R(1), x.val) THEN x.val ELSE T3DefaultA

\* overlap.ema(close, length, **kwargs): the smoothing, then the fill the
\* options ask for.
ema(s, n, kw) == ApplyFill(EmaRaw(s, n, Presma(kw)), kw)

\* Faulty coefficients: the cubic term of c3 has the wrong sign.
T3CoefSign(a) ==
    LET a2 == Mul(a, a)
        a3 == Mul(a, a2)
    IN  <<Neg(a3),
          Add(Mul(R(3), a2), Mul(R(3), a3)),
          Add(Sub(Mul(R(-6), a2), Mul(R(3), a)), Mul(R(3), a3)),
          Add(Add(Add(a3, Mul(R(3), a2)), Mul(R(3), a)), R(1))>>

\* c1, c2, c3, c4
T3Coef(a) ==
    LET a2 == Mul(a, a)
        a3 == Mul(a, a2)
    IN  <<Neg(a3),
          Add(Mul(R(3), a2), Mul(R(3), a3)),
          Sub(Sub(Mul(R(-6), a2), Mul(R(3), a)), Mul(R(3), a3)),
          Add(Add(Add(a3, Mul(R(3), a2)), Mul(R(3), a)), R(1))>>

T3Bundled(cl, length, a, kw) ==
    LET c == T3Coef(a)
        e1 == ema(cl, length, kw)
        e2 == ema(e1, length, kw)
        e3 == ema(e2, length, kw)
        e4 == ema(e3, length, kw)
        e5 == ema(e4, length, kw)
        e6 == ema(e5, length, kw)
    IN  AddS(AddS(AddS(Scale(c[1], e6), Scale(c[2], e5)),
                       Scale(c[3], e4)), Scale(c[4], e3))

\* talib.T3(close, length, a): the library's chain of six smoothings.
TalibT3(cl, length, a) == T3Bundled(cl, length, a, <<>>)

T3Raw(cl, length, a, kw, mode_tal, has_talib) ==
    IF has_talib /\ mode_tal THEN TalibT3(cl, length, a)
    ELSE T3Bundled(cl, length, a, kw)

CallT3(Ls, As, Ts, Os, Ks) ==
    /\ pc = "start"
    /\ \E length \in Ls, a \in As, tal \in Ts, kw \in Ks :
        LET n == NormInt(length, T3DefaultLength)
            na == NormA(a)
            cl == verify_series(close, n)
            mode_tal == ModeTal(tal[1])
        IN  \E rw \in {IF cl.present
                       THEN T3Raw(cl.v, n, na, kw, mode_tal, tal[2]) ELSE <<>>},
               offset \in Os :
            LET off == get_offset(offset)
            IN  /\ fn' = "t3"
                /\ args' = [NoArgs EXCEPT !.length = length, !.a = a,
                                          !.talib = tal[1], !.has_talib = tal[2],
                                          !.offset = offset, !.kwargs = kw]
                /\ norm' = [NoNorm EXCEPT !.length = n, !.a = na, !.offset = off,
                                          !.mode_tal = mode_tal]
                /\ scan' = <<>>
                /\ IF ~cl.present
                   THEN raw' = <<>> /\ ret' = NoRet
                   ELSE /\ raw' = <<rw>>
                        /\ ret' = Finish(rw, off, kw, Label("T3", <<R(n), na>>), "overlap")
    /\ pc' = "done"
    /\ UNCHANGED close

----------------------------------------------------------------------------
(* The inputs and the specifications.                                      *)

SeriesOver(maxlen, vals) ==
    {Ser(FromInts(s)) : s \in UNION {[1 .. k -> vals] : k \in 0 .. maxlen}}

Lengths == {None} \cup {Some(k) : k \in 0 .. MaxWin}

Drifts == {None, Some(2)}

Offsets == {None} \cup {Some(k) : k \in {-MaxOff, MaxOff}}

Scalars == {None}

\* talib argument and Imports["talib"]
TalibModes ==
    {<<NoneB, FALSE>>, <<NoneB, TRUE>>, <<Some(FALSE), TRUE>>, <<Some(TRUE), FALSE>>}

FillConst == R(9)

Kwargs ==
    {<<>>,
     <<KwNum("fillna", FillConst)>>,
     <<KwStr("fill_method", "ffill")>>,
     <<KwStr("fill_method", "bfill")>>,
     <<KwNum("fillna", FillConst), KwStr("fill_method", "ffill")>>,
     <<KwStr("fill_method", "ffill"), KwNum("fillna", FillConst)>>}

KwargsDpo == Kwargs \cup {<<KwFlag("lookahead", FALSE)>>}

KwargsT3 == {<<>>, <<KwFlag("presma", FALSE)>>}

As == {NoneR, [some |-> TRUE, val |-> Norm(1, 2)], [some |-> TRUE, val |-> Norm(3, 2)]}

Initials == {None, Some(5)}

SmiFast == {None, Some(MaxWin)}

SmiSlow == {None, Some(1), Some(MaxWin)}

SmiSignal == {None, Some(1), Some(MaxWin), Some(MaxWin + 1)}

InitWith(S) ==
    /\ close \in S
    /\ pc = "start"
    /\ fn = ""
    /\ args = NoArgs
    /\ norm = NoNorm
    /\ scan = <<>>
    /\ raw = <<>>
    /\ ret = NoRet

\* Every indicator, with every offset and fill option.
Init == InitWith(SeriesOver(MaxLen, 0 .. MaxVal) \cup {NoSeries})

Next ==
    \/ CallCmo(Lengths, Scalars, Drifts, TalibModes, Offsets, Kwargs)
    \/ CallPgo(Lengths, Offsets, Kwargs)
    \/ CallSmi(SmiFast, SmiSlow, SmiSignal, Scalars, Offsets, Kwargs)
    \/ CallFwma(Lengths, Offsets, Kwargs)
    \/ CallT3(Lengths, As, TalibModes, Offsets, Kwargs)
    \/ CallVidya(Lengths, Drifts, Offsets, Kwargs)
    \/ CallDpo(Lengths, Offsets, KwargsDpo)
    \/ CallPvi(Lengths, Initials, Offsets, Kwargs)

Spec == Init /\ [][Next]_vars

\* vidya alone, on longer series, with offset 0 and no fill option.
InitV == InitWith(SeriesOver(MaxLenV, 0 .. MaxValV) \cup {NoSeries})

NextV == CallVidya(Lengths, {None, Some(1), Some(2), Some(3)}, {None}, {<<>>})

SpecV == InitV /\ [][NextV]_vars

\* Series of one step: v1 up to position c, v2 after it.
StepSeries(maxlen, vals) ==
    {Ser(Mat([j \in 1 .. k |-> IF j <= c THEN R(v1) ELSE R(v2)], k)) :
        k \in 0 .. maxlen, c \in 0 .. maxlen, v1 \in vals, v2 \in vals}

\* t3 alone, on series long enough for six smoothings, with offset 0, no fill
\* option and either seeding of the smoothing.
InitT == InitWith(StepSeries(MaxLenT, 0 .. MaxVal) \cup {NoSeries})

NextT == CallT3(Lengths, As, TalibModes, {None}, KwargsT3)

SpecT == InitT /\ [][NextT]_vars

\* pvi alone, on series that may hold zero and negative values, with offset 0
\* and no fill option.
InitP == InitWith(SeriesOver(MaxLenP, (-MaxValP) .. MaxValP))

NextP == CallPvi(Lengths, Initials, {None}, {<<>>})

SpecP == InitP /\ [][NextP]_vars

----------------------------------------------------------------------------
(* Properties of vidya.                                                    *)

Done(f) == pc = "done" /\ fn = f /\ ~ret.none

\* The call used offset 0 and passed no option.
Plain == norm.offset = 0 /\ args.kwargs = <<>>

\* The sum over the trailing n positions ending at i of the positive parts
\* (sign = 1) or of the absolute negative parts (sign = -1) of
\* cl[j] - cl[j - d]; null when a difference of the window is undefined.
RECURSIVE PartSum(_, _, _, _, _)
PartSum(cl, d, lo, hi, sign) ==
    IF lo > hi THEN R(0)
    ELSE IF hi - d < 0 \/ hi - d >= Len(cl) THEN NaN
    ELSE LET x == Sub(At(cl, hi), At(cl, hi - d))
             part == IF Sgn(x[1]) = sign THEN AbsR(x) ELSE R(0)
         IN  Add(PartSum(cl, d, lo, hi - 1, sign), part)

WinP(i) == PartSum(close.v, norm.drift, i - norm.length + 1, i, 1)

WinN(i) == PartSum(close.v, norm.drift, i - norm.length + 1, i, -1)

CmoAbs(i) == AbsR(Div(Sub(WinP(i), WinN(i)), Add(WinP(i), WinN(i))))

\* out[i - 1] of the scan, with out[n - 1] taken as 0.
ScanPrev(i) == IF i = norm.length THEN R(0) ELSE At(scan, i - 1)

\* C1: at every position i with n <= i < m the scan of vidya holds
\* alpha*cmo_abs[i]*close[i] + out[i-1]*(1 - alpha*cmo_abs[i]) with
\* alpha = 2/(n+1), out[n-1] = 0 and cmo_abs[i] = |P - N|/(P + N) over the
\* trailing n differences.
C1_Recurrence ==
    Done("vidya") =>
        \A i \in Pos(scan) :
            i >= norm.length =>
                LET alpha == Div(R(2), R(norm.length + 1))
                    k == Mul(alpha, CmoAbs(i))
                IN  At(scan, i) =
                        Add(Mul(k, At(close.v, i)),
                            Mul(ScanPrev(i), Sub(R(1), k)))

\* A scan with two real steps, the second one on a non-zero carry.
C1_Witness ==
    /\ Done("vidya")
    /\ \E i \in Pos(scan) :
        /\ i > norm.length
        /\ IsFinite(At(scan, i)) /\ IsFinite(At(scan, i - 1))
        /\ At(scan, i - 1) # R(0)
        /\ At(scan, i) # At(scan, i - 1)
        /\ CmoAbs(i) \notin {R(0), R(1), NaN}

\* C2: with offset 0 and no fill option every position i < n of the result is
\* null and every position i >= n whose scan value is a number (0 included)
\* is returned as that number.
C2_ZeroSentinel ==
    (Done("vidya") /\ Plain) =>
        \A i \in Pos(scan) :
            /\ i < norm.length => IsNull(At(ret.cols[1], i))
            /\ (i >= norm.length /\ ~IsNull(At(scan, i))) =>
                    At(ret.cols[1], i) = At(scan, i)

\* C3: when the windowed sum P + N is exactly zero at a step i >= n, the
\* result is null at i and at every later position.
C3_Poison ==
    (Done("vidya") /\ Plain) =>
        \A i \in Pos(scan) :
            (i >= norm.length /\ Add(WinP(i), WinN(i)) = R(0)) =>
                \A j \in Pos(scan) :
                    j >= i => IsNull(At(scan, j)) /\ IsNull(At(ret.cols[1], j))

\* A poisoned step after a real one and before a step whose oscillator is defined.
C3_Witness ==
    /\ Done("vidya") /\ Plain
    /\ \E i \in Pos(scan) :
        /\ i > norm.length
        /\ Add(WinP(i), WinN(i)) = R(0)
        /\ ~IsNull(At(ret.cols[1], i - 1))
        /\ \E j \in Pos(scan) : j > i /\ ~IsNull(CmoAbs(j)) /\ IsNull(At(ret.cols[1], j))

----------------------------------------------------------------------------
(* Properties of every indicator.                                          *)

Returned_ == pc = "done" /\ ~ret.none

Cols == 1 .. Len(ret.cols)

HasFill == Has(args.kwargs, "fillna") \/ Has(args.kwargs, "fill_method")

\* The raw series of column j after the "# Offset" block.
Shifted(j) == ApplyOffset(raw[j], norm.offset)

RECURSIVE C4_E(_)
C4_E(k) ==
    IF k = 1 THEN ema(close.v, norm.length, args.kwargs)
    ELSE ema(C4_E(k - 1), norm.length, args.kwargs)

\* C4: on the bundled path the t3 series is c1*e6 + c2*e5 + c3*e4 + c4*e3 at
\* every position, with e1 = ema(close), e(k+1) = ema(e(k)) on the same length
\* and c1 = -a^3, c2 = 3a^2 + 3a^3, c3 = -6a^2 - 3a - 3a^3,
\* c4 = a^3 + 3a^2 + 3a + 1.
C4_T3Bundled ==
    (Done("t3") /\ ~(args.has_talib /\ norm.mode_tal)) =>
        LET a == norm.a
            a2 == Mul(a, a)
            a3 == Mul(a2, a)
            c1 == Neg(a3)
            c2 == Add(Mul(R(3), a2), Mul(R(3), a3))
            c3 == Sub(Sub(Neg(Mul(R(6), a2)), Mul(R(3), a)), Mul(R(3), a3))
            c4 == Add(Add(Add(a3, Mul(R(3), a2)), Mul(R(3), a)), R(1))
            e3 == C4_E(3)
            e4 == ema(e3, norm.length, args.kwargs)
            e5 == ema(e4, norm.length, args.kwargs)
            e6 == ema(e5, norm.length, args.kwargs)
        IN  /\ Len(raw[1]) = Len(close.v)
            /\ \A i \in Pos(raw[1]) :
                At(raw[1], i) =
                    Add(Add(Add(Mul(c1, At(e6, i)), Mul(c2, At(e5, i))),
                            Mul(c3, At(e4, i))), Mul(c4, At(e3, i)))

\* A bundled t3 whose four smoothings differ at a position holding a value.
C4_Witness ==
    /\ Done("t3") /\ ~(args.has_talib /\ norm.mode_tal)
    /\ norm.length >= 2 /\ args.kwargs = <<>>
    /\ \E i \in Pos(raw[1]) :
        LET e3 == C4_E(3)
            e4 == C4_E(4)
            e5 == C4_E(5)
            e6 == C4_E(6)
        IN  /\ IsFinite(At(raw[1], i))
            /\ Cardinality({At(e3, i), At(e4, i), At(e5, i), At(e6, i)}) = 4

\* The indicators whose raw series is null before the lookback.
NullBeforeLookback ==
    \/ fn \in {"cmo", "pgo", "fwma", "t3", "vidya"}
    \/ fn = "dpo" /\ ~norm.centered

LeadingNull(j) ==
    \A i \in Pos(ret.cols[j]) : i <= norm.length - 2 => IsNull(At(ret.cols[j], i))

BothFills == Has(args.kwargs, "fillna") /\ Has(args.kwargs, "fill_method")

LastKey == args.kwargs[Len(args.kwargs)].key

\* C6 as stated: when fillna and fill_method are both passed, the one written
\* last decides the fill: the method alone if fill_method is last, the constant
\* alone if fillna is last.
C6_LastWins ==
    (Returned_ /\ BothFills) =>
        \A j \in Cols :
            ret.cols[j] =
                IF LastKey = "fill_method"
                THEN FillMethod(Shifted(j), Get(args.kwargs, "fill_method").str)
                ELSE Fillna(Shifted(j), Get(args.kwargs, "fillna").num)

\* C6, amended: when a non-null fillna and a fill_method are both passed, the
\* constant fills every null in either order of the two options.
C6_ConstantWins ==
    (Returned_ /\ BothFills /\ ~IsNull(Get(args.kwargs, "fillna").num)) =>
        \A j \in Cols :
            /\ Len(ret.cols[j]) = Len(Shifted(j))
            /\ \A i \in Pos(Shifted(j)) :
                At(ret.cols[j], i) =
                    IF IsNull(At(Shifted(j), i))
                    THEN Get(args.kwargs, "fillna").num
                    ELSE At(Shifted(j), i)

\* fill_method written last, and a null that the method would have filled
\* with a neighbour.
C6_Witness ==
    /\ Returned_ /\ BothFills /\ LastKey = "fill_method"
    /\ \E i \in Pos(Shifted(1)) :
        /\ IsNull(At(Shifted(1), i))
        /\ ~IsNull(At(FillMethod(Shifted(1), Get(args.kwargs, "fill_method").str), i))
        /\ At(FillMethod(Shifted(1), Get(args.kwargs, "fill_method").str), i)
                # Get(args.kwargs, "fillna").num

\* C7: when a non-null constant is passed as fillna, no position of any
\* returned series is null, for every indicator and offset.
C7_NoNullAfterFill ==
    (Returned_ /\ Has(args.kwargs, "fillna")
        /\ ~IsNull(Get(args.kwargs, "fillna").num)) =>
        \A j \in Cols : NoNull(ret.cols[j])

\* smi with a non-zero offset: its three columns held nulls before the fill.
C7_Witness ==
    /\ Done("smi") /\ Has(args.kwargs, "fillna") /\ norm.offset # 0
    /\ \A j \in Cols :
        /\ \E i \in Pos(raw[j]) : IsNull(At(raw[j], i))
        /\ \E i \in Pos(raw[j]) : ~IsNull(At(raw[j], i))
        /\ \E i \in Pos(ret.cols[j]) : At(ret.cols[j], i) = FillConst

\* The positions whose value the shift by k pushes off the end.
PushedOff(i, k, m) == IF k > 0 THEN i >= m - k ELSE i < -k

\* C8: without fill an output with offset k holds at position i the raw value
\* of position i - k, null where there is none, on the same length; shifting it
\* back by -k gives the raw value everywhere but at the |k| pushed-off
\* positions, which are null.
C8_Offset ==
    (Returned_ /\ ~HasFill) =>
        \A j \in Cols :
            LET k == norm.offset
                m == Len(raw[j])
                back == Shift(ret.cols[j], -k)
            IN  /\ Len(ret.cols[j]) = m
                /\ \A i \in 0 .. (m - 1) :
                    /\ At(ret.cols[j], i) =
                            IF i - k >= 0 /\ i - k < m THEN At(raw[j], i - k) ELSE NaN
                    /\ At(back, i) =
                            IF PushedOff(i, k, m) THEN NaN ELSE At(raw[j], i)

\* A shifted output that lost a value off the end and kept another.
C8_Witness ==
    /\ Returned_ /\ ~HasFill /\ norm.offset # 0
    /\ \E i, i2 \in Pos(raw[1]) :
        /\ PushedOff(i, norm.offset, Len(raw[1])) /\ ~IsNull(At(raw[1], i))
        /\ ~PushedOff(i2, norm.offset, Len(raw[1])) /\ ~IsNull(At(raw[1], i2))
        /\ At(Shift(ret.cols[1], -norm.offset), i2) = At(raw[1], i2)

\* An input is invalid when absent or shorter than the minimum length.
Invalid(s) == ~s.present \/ Len(s.v) < norm.length

SomeInvalid ==
    \/ Invalid(close)
    \/ fn = "pgo" /\ (Invalid(args.high) \/ Invalid(args.low))
    \/ fn = "pvi" /\ Invalid(args.volume)

\* C9: an indicator returns None exactly when one of its input series is absent
\* or shorter than the normalized minimum length, and then computes nothing.
C9_Validation ==
    pc = "done" =>
        /\ ret.none <=> SomeInvalid
        /\ ret.none => (raw = <<>> /\ scan = <<>> /\ ret.cols = <<>>)
        /\ ~ret.none => raw # <<>>

\* pgo and pvi rejected for a second input alone.
C9_Witness ==
    /\ pc = "done" /\ ret.none /\ ~Invalid(close)
    /\ \/ fn = "pgo" /\ args.high.present /\ Invalid(args.high) /\ ~Invalid(args.low)
       \/ fn = "pvi" /\ ~args.volume.present

DpoDocLength == 1

PviDocLength == 13

Defaulted(x) == ~x.some \/ x.val <= 0

\* C10: an absent or non-positive parameter is replaced by the documented
\* default (pgo 14, smi 5/20/5, fwma 10, t3 10 and a 0.7, vidya 14, dpo 1,
\* pvi 13 and initial 1000), and the label shows the value used.
C10_Defaults ==
    pc = "done" =>
        /\ (fn = "pgo" /\ Defaulted(args.length)) => norm.length = PgoDefaultLength
        /\ (fn = "fwma" /\ Defaulted(args.length)) => norm.length = FwmaDefaultLength
        /\ (fn = "vidya" /\ Defaulted(args.length)) => norm.length = VidyaDefaultLength
        /\ (fn = "t3" /\ Defaulted(args.length)) => norm.length = T3DefaultLength
        /\ (fn = "t3" /\ (~args.a.some \/ ~Gt(args.a.val, R(0)) \/ ~Gt(R(1), args.a.val)))
                => norm.a = Norm(7, 10)
        /\ (fn = "smi" /\ Defaulted(args.fast)) => SmiDefaultFast \in {norm.fast, norm.slow}
        /\ (fn = "smi" /\ Defaulted(args.slow)) => SmiDefaultSlow \in {norm.fast, norm.slow}
        /\ (fn = "smi" /\ Defaulted(args.signal)) => norm.signal = SmiDefaultSignal
        /\ (fn = "dpo" /\ Defaulted(args.length)) => norm.length = DpoDocLength
        /\ (fn = "pvi" /\ Defaulted(args.length)) => norm.length = PviDocLength
        /\ (fn = "pvi" /\ Defaulted(args.initial)) => norm.initial = PviDefaultInitial
        /\ (~ret.none /\ fn \in {"pgo", "fwma", "vidya", "t3", "dpo", "pvi"})
                => ret.names[1].params[1] = R(norm.length)
        /\ (~ret.none /\ fn = "t3") => ret.names[1].params[2] = norm.a
        /\ (~ret.none /\ fn = "smi")
                => \A j \in Cols :
                        SubSeq(ret.names[j].params, 1, 3)
                            = <<R(norm.fast), R(norm.slow), R(norm.signal)>>

----------------------------------------------------------------------------
(* Properties of dpo.                                                      *)

\* lookahead was not switched off by the caller.
Lookahead ==
    ~(Has(args.kwargs, "lookahead") /\ ~Get(args.kwargs, "lookahead").flag)

\* close[i] - sma(close, length)[i - t], null where i - t is no position or the
\* mean is null.
DpoPlain(i) ==
    LET t == (norm.length \div 2) + 1
        ma == sma(close.v, norm.length)
    IN  IF i - t >= 0 /\ i < Len(close.v)
        THEN Sub(At(close.v, i), At(ma, i - t)) ELSE NaN

\* C11: with t = int(0.5*length) + 1 the non-centered series of dpo is
\* close[i] - sma(close, length)[i - t]; the centered one is that series
\* shifted back by t (its value at i + t, null on the last t positions); with
\* lookahead=False the non-centered series is computed whatever centered is.
C11_Centering ==
    Done("dpo") =>
        LET t == (norm.length \div 2) + 1
            m == Len(close.v)
        IN  /\ Len(raw[1]) = m
            /\ \A i \in Pos(raw[1]) :
                At(raw[1], i) =
                    IF args.centered /\ Lookahead
                    THEN (IF i + t < m THEN DpoPlain(i + t) ELSE NaN)
                    ELSE DpoPlain(i)

----------------------------------------------------------------------------
(* vidya with a drift of two or more.                                      *)

\* C13: with drift d >= 2, offset 0 and no fill option, every position of the
\* result of vidya on an input longer than length is null: the oscillator is
\* null at the first scan step and the null is carried to the end.
C13_DriftAllNull ==
    (Done("vidya") /\ Plain /\ norm.drift >= 2
        /\ Len(close.v) > norm.length) =>
        /\ \A i \in Pos(scan) :
            (i >= norm.length /\ i <= norm.length + norm.drift - 2)
                => IsNull(CmoAbs(i))
        /\ \A i \in Pos(scan) : i >= norm.length => IsNull(At(scan, i))
        /\ Len(ret.cols[1]) = Len(close.v)
        /\ AllNull(ret.cols[1])

\* A drift of two on an input long enough for the oscillator to be defined at
\* a later step, where close moved.
C13_Witness ==
    /\ Done("vidya") /\ Plain /\ norm.drift >= 2
    /\ Len(close.v) > norm.length
    /\ \E i \in Pos(scan) :
        /\ i > norm.length
        /\ IsFinite(CmoAbs(i)) /\ CmoAbs(i) # R(0)
        /\ At(close.v, i) # R(0)
        /\ IsNull(At(ret.cols[1], i))

----------------------------------------------------------------------------
(* Properties of smi.                                                      *)

\* Position i of the returned oscillator is smi minus signal.
OscIsDifference(i) ==
    At(ret.cols[3], i) = Sub(At(ret.cols[1], i), At(ret.cols[2], i))

\* C14 as stated: for any offset and any fill options the returned oscillator
\* is the returned smi minus the returned signal wherever both are non-null.
C14_OscConsistent ==
    Done("smi") =>
        \A i \in Pos(ret.cols[3]) :
            (~IsNull(At(ret.cols[1], i)) /\ ~IsNull(At(ret.cols[2], i)))
                => OscIsDifference(i)

\* C14, amended: for any offset the returned oscillator is smi minus signal at
\* every position when no fill option is passed, and with fill options at the
\* positions where smi and signal both held a value before the fill.
C14_OscBeforeFill ==
    Done("smi") =>
        /\ Len(ret.cols[1]) = Len(ret.cols[3]) /\ Len(ret.cols[2]) = Len(ret.cols[3])
        /\ \A i \in Pos(ret.cols[3]) :
            /\ ~HasFill => OscIsDifference(i)
            /\ (~IsNull(At(Shifted(1), i)) /\ ~IsNull(At(Shifted(2), i)))
                    => OscIsDifference(i)

\* A shifted and filled frame whose signal had more leading nulls than its
\* smi, with a position where both held a value.
C14_Witness ==
    /\ Done("smi") /\ HasFill /\ norm.offset # 0
    /\ \E i \in Pos(raw[1]) : ~IsNull(At(raw[1], i)) /\ IsNull(At(raw[2], i))
    /\ \E i \in Pos(ret.cols[3]) :
        /\ ~IsNull(At(Shifted(1), i)) /\ ~IsNull(At(Shifted(2), i))
        /\ At(ret.cols[3], i) # R(0)

----------------------------------------------------------------------------
(* Properties of pvi.                                                      *)

\* 100 * (close[i] - close[i - n]) / close[i - n]; null for i < n.
PviRoc(i) ==
    LET n == norm.length
    IN  IF i < n THEN NaN
        ELSE Mul(R(100), Div(Sub(At(close.v, i), At(close.v, i - n)),
                             At(close.v, i - n)))

VolumeRose(i) == Gt(At(args.volume.v, i), At(args.volume.v, i - 1))

\* C15 as stated: with offset 0 and no fill option pvi[0] is the normalized initial
\* value; for i >= 1, pvi[i] = pvi[i-1] + roc(close, length)[i] when
\* volume[i] > volume[i-1] and the rate of change is defined, and
\* pvi[i] = pvi[i-1] otherwise; no position is null.
C15_Accumulation ==
    (Done("pvi") /\ Plain) =>
        LET out == ret.cols[1]
        IN  /\ Len(out) = Len(close.v)
            /\ At(out, 0) = R(norm.initial)
            /\ \A i \in Pos(out) :
                /\ ~IsNull(At(out, i))
                /\ i >= 1 =>
                    At(out, i) =
                        IF VolumeRose(i) /\ ~IsNull(PviRoc(i))
                        THEN Add(At(out, i - 1), PviRoc(i))
                        ELSE At(out, i - 1)

\* C15, amended: the accumulation as stated; no position is null or infinite
\* when close holds no zero.  (A zero in close makes a rate of change
\* infinite, and two infinite steps of opposite sign leave a null.)
C15_Amended ==
    (Done("pvi") /\ Plain) =>
        LET out == ret.cols[1]
        IN  /\ Len(out) = Len(close.v)
            /\ At(out, 0) = R(norm.initial)
            /\ \A i \in Pos(out) :
                i >= 1 =>
                    At(out, i) =
                        IF VolumeRose(i) /\ ~IsNull(PviRoc(i))
                        THEN Add(At(out, i - 1), PviRoc(i))
                        ELSE At(out, i - 1)
            /\ (\A j \in Pos(close.v) : At(close.v, j) # R(0))
                    => \A i \in Pos(out) : IsFinite(At(out, i))

\* A window of two on a close without zero: the index stands still at
\* position 1 although the volume rose, and moves at position 2.
C15_Witness ==
    /\ Done("pvi") /\ Plain /\ norm.length = 2
    /\ Len(close.v) >= 3
    /\ \A j \in Pos(close.v) : At(close.v, j) # R(0)
    /\ VolumeRose(1) /\ At(ret.cols[1], 1) = At(ret.cols[1], 0)
    /\ VolumeRose(2) /\ IsFinite(PviRoc(2))
    /\ At(ret.cols[1], 2) # At(ret.cols[1], 1)

====
